---- MODULE Spec2Model ----
(***************************************************************************)
(* A model of bot.py: the numeric formatter, the four provider adapters,   *)
(* the resolution pipeline fetch_token_info and the per-user conversation  *)
(* handlers (start, button, set_private_key, handle_messages).             *)
(*                                                                         *)
(* Python values are records tagged by their type in field t.  A Python    *)
(* number is a decimal m * 10^e kept normalised (m carries no trailing     *)
(* zero, zero is 0 * 10^0), so that equal numbers are equal records.       *)
(* An exception raised by an expression is the value RAISE; every operator *)
(* that the code evaluates inside a try block hands RAISE on to the        *)
(* enclosing except clause.                                                *)
(***************************************************************************)
EXTENDS Integers, Sequences, FiniteSets, TLC

VARIABLES users, pc, cur, result, calls, info, reply, events, probe, update

vars == <<users, pc, cur, result, calls, info, reply, events, probe, update>>

-----------------------------------------------------------------------------
(* Python values *)

None == [t |-> "null"]
Absent == [t |-> "absent"]
RAISE == [t |-> "raise"]
Str(s) == [t |-> "str", s |-> s]
True == [t |-> "bool", b |-> TRUE]
False == [t |-> "bool", b |-> FALSE]

RECURSIVE Pow10(_)
Pow10(n) == IF n <= 0 THEN 1 ELSE 10 * Pow10(n - 1)

RECURSIVE NormM(_, _)
NormM(m, e) ==
    IF m = 0 THEN [t |-> "num", m |-> 0, e |-> 0]
    ELSE IF m % 10 = 0 THEN NormM(m \div 10, e + 1)
    ELSE [t |-> "num", m |-> m, e |-> e]

Num(m, e) == NormM(m, e)

Abs(n) == IF n < 0 THEN -n ELSE n

\* number of decimal digits of a natural number (0 has one digit)
NDigits(n) == Len(ToString(n))

\* position of the leading digit of a non-zero number: 10^(Mag-1) <= |x| < 10^Mag
Mag(x) == NDigits(Abs(x.m)) + x.e

\* x < y on non-negative numbers
LtPos(x, y) ==
    IF x.m = 0 THEN y.m # 0
    ELSE IF y.m = 0 THEN FALSE
    ELSE IF Mag(x) # Mag(y) THEN Mag(x) < Mag(y)
    ELSE LET lo == IF x.e < y.e THEN x.e ELSE y.e
         IN  x.m * Pow10(x.e - lo) < y.m * Pow10(y.e - lo)

Neg(x) == [t |-> "num", m |-> -x.m, e |-> x.e]

\* x < y on Python numbers
Lt(x, y) ==
    IF x.m < 0 /\ y.m >= 0 THEN TRUE
    ELSE IF x.m >= 0 /\ y.m < 0 THEN FALSE
    ELSE IF x.m < 0 THEN LtPos(Neg(y), Neg(x))
    ELSE LtPos(x, y)

Ge(x, y) == ~Lt(x, y)

\* bool(v): None, 0, "", {} and [] are false, every other value is true
Truthy(v) ==
    CASE v.t = "null" -> FALSE
      [] v.t = "absent" -> FALSE
      [] v.t = "bool" -> v.b
      [] v.t = "num" -> v.m # 0
      [] v.t = "str" -> v.s # ""
      [] v.t = "list" -> Len(v.items) > 0
      [] v.t = "obj" -> \E k \in DOMAIN v : k # "t" /\ v[k] # Absent
      [] OTHER -> TRUE

\* d.get(k, default) once the key's slot v has been read: an absent key gives default
Get(v, default) == IF v = Absent THEN default ELSE v

\* v or w
Or(v, w) == IF Truthy(v) THEN v ELSE w

-----------------------------------------------------------------------------
(* Strings *)

Char(s, i) == SubSeq(s, i, i)

Digits == {"0", "1", "2", "3", "4", "5", "6", "7", "8", "9"}

DigitVal(c) ==
    CASE c = "0" -> 0 [] c = "1" -> 1 [] c = "2" -> 2 [] c = "3" -> 3
      [] c = "4" -> 4 [] c = "5" -> 5 [] c = "6" -> 6 [] c = "7" -> 7
      [] c = "8" -> 8 [] c = "9" -> 9

IsSpace(c) == c \in {" ", "\t", "\n", "\r", "\f"}

RECURSIVE LStrip(_)
LStrip(s) ==
    IF Len(s) > 0 /\ IsSpace(Char(s, 1)) THEN LStrip(SubSeq(s, 2, Len(s))) ELSE s

RECURSIVE RStrip(_)
RStrip(s) ==
    IF Len(s) > 0 /\ IsSpace(Char(s, Len(s))) THEN RStrip(SubSeq(s, 1, Len(s) - 1))
    ELSE s

\* lstrip in place of strip: the blanks at the end are kept
Strip_LeftOnly(s) == LStrip(s)

\* str.strip()
Strip(s) == RStrip(LStrip(s))

\* s.rstrip(c) for one character c
RECURSIVE RStripChar(_, _)
RStripChar(s, c) ==
    IF Len(s) > 0 /\ Char(s, Len(s)) = c THEN RStripChar(SubSeq(s, 1, Len(s) - 1), c)
    ELSE s

RECURSIVE Zeros(_)
Zeros(n) == IF n <= 0 THEN "" ELSE "0" \o Zeros(n - 1)

AllDigits(s) == \A i \in 1..Len(s) : Char(s, i) \in Digits

RECURSIVE DigitsVal(_)
DigitsVal(s) ==
    IF Len(s) = 0 THEN 0
    ELSE 10 * DigitsVal(SubSeq(s, 1, Len(s) - 1)) + DigitVal(Char(s, Len(s)))

IndexOf(s, c) ==
    IF \E i \in 1..Len(s) : Char(s, i) = c
    THEN CHOOSE i \in 1..Len(s) : Char(s, i) = c /\ \A j \in 1..(i - 1) : Char(s, j) # c
    ELSE 0

\* float(s) for a string: surrounding whitespace, a sign, digits with at most
\* one decimal point; anything else is a ValueError
ParseFloat(s) ==
    LET body == Strip(s)
        neg == Len(body) > 0 /\ Char(body, 1) = "-"
        signed == Len(body) > 0 /\ Char(body, 1) \in {"-", "+"}
        u == IF signed THEN SubSeq(body, 2, Len(body)) ELSE body
        dot == IndexOf(u, ".")
        ip == IF dot = 0 THEN u ELSE SubSeq(u, 1, dot - 1)
        fp == IF dot = 0 THEN "" ELSE SubSeq(u, dot + 1, Len(u))
    IN  IF Len(ip) + Len(fp) = 0 \/ ~AllDigits(ip) \/ ~AllDigits(fp) THEN RAISE
        ELSE LET m == DigitsVal(ip \o fp)
             IN  Num(IF neg THEN -m ELSE m, -Len(fp))

\* float(v): a number converts to itself, a string is parsed, None, a dict or
\* a list is a TypeError
PyFloat(v) ==
    CASE v.t = "num" -> v
      [] v.t = "str" -> ParseFloat(v.s)
      [] OTHER -> RAISE

\* the decimal digits of |x| * 10^n as an integer string, for n >= -x.e
ScaledDigits(x, n) == ToString(Abs(x.m)) \o Zeros(x.e + n)

\* round half to even of a / 10^k for k >= 1
RoundDiv(a, k) ==
    LET p == Pow10(k)
        q == a \div p
        r == a % p
    IN  IF 2 * r > p \/ (2 * r = p /\ q % 2 = 1) THEN q + 1 ELSE q

\* f"{x:.nf}": x in fixed notation with n fractional digits
Fixed(x, n) ==
    LET ds == IF x.e + n >= 0 THEN ScaledDigits(x, n)
              ELSE ToString(RoundDiv(Abs(x.m), -(x.e + n)))
        padded == Zeros(n + 1 - Len(ds)) \o ds
        ip == SubSeq(padded, 1, Len(padded) - n)
        fp == SubSeq(padded, Len(padded) - n + 1, Len(padded))
        sign == IF x.m < 0 THEN "-" ELSE ""
    IN  sign \o ip \o (IF n > 0 THEN "." \o fp ELSE "")

\* str(v) of a number in positional notation (the numbers of the model are
\* within the range where Python prints no exponent)
PyStr(v) ==
    CASE v.t = "str" -> v.s
      [] v.t = "num" -> IF v.e >= 0 THEN Fixed(v, 0) ELSE Fixed(v, -v.e)
      [] v.t = "null" -> "None"
      [] OTHER -> "{}"

-----------------------------------------------------------------------------
(* Numeric formatter *)

Hundredth == Num(1, -2)
Millionth == Num(1, -6)
Thousand == Num(1, 3)
Million == Num(1, 6)

\* value / 10^k
Shift(x, k) == IF x.m = 0 THEN x ELSE [t |-> "num", m |-> x.m, e |-> x.e - k]

format_number(value) ==
    LET v == PyFloat(value)
    IN  IF v = RAISE THEN "N/A"
        ELSE IF v.m = 0 THEN "$0"
        ELSE IF Lt(v, Hundredth)
             THEN IF Lt(v, Millionth)
                  THEN RStripChar(RStripChar("$" \o Fixed(v, 10), "0"), ".")
                  ELSE RStripChar(RStripChar("$" \o Fixed(v, 8), "0"), ".")
        ELSE IF Ge(v, Million) THEN "$" \o Fixed(Shift(v, 6), 2) \o "M"
        ELSE IF Ge(v, Thousand) THEN "$" \o Fixed(Shift(v, 3), 2) \o "K"
        ELSE "$" \o Fixed(v, 4)

-----------------------------------------------------------------------------
(* HTTP responses and JSON payloads.  A response is                        *)
(*   [raised, status_code, json]: raised means requests.get/post raised    *)
(* (timeout, connection error); json is the decoded body, or RAISE when    *)
(* res.json() raises.  A JSON object is a record tagged "obj" whose other  *)
(* fields are its keys; a missing key is the value Absent.                 *)

Zero == Num(0, 0)
Obj(r) == [t |-> "obj"] @@ r
List(items) == [t |-> "list", items |-> items]
IsObj(v) == v.t = "obj"

HttpRaised == [raised |-> TRUE, status_code |-> 0, json |-> None]
HttpStatus(code) == [raised |-> FALSE, status_code |-> code, json |-> None]
HttpOk(body) == [raised |-> FALSE, status_code |-> 200, json |-> body]

\* k in v for a key k whose slot in v is `slot`: a dict is searched, a list or
\* a string does not hold the key
HasKey(v, slot) == v.t = "obj" /\ slot # Absent

\* k in v is a TypeError when v is None or a number
InRaises(v) == v.t \notin {"obj", "list", "str"}

\* len(v) is a TypeError when v is None or a number
LenRaises(v) == v.t \notin {"list", "str", "obj"}

\* len(v)
PyLen(v) ==
    CASE v.t = "list" -> Len(v.items)
      [] v.t = "str" -> Len(v.s)
      [] OTHER -> Cardinality({k \in DOMAIN v : k # "t" /\ v[k] # Absent})

\* a RawQuote, the dict every adapter returns
RawQuote(price, liquidity, market_cap, token_name, token_symbol, source) ==
    Obj([price |-> price, liquidity |-> liquidity, market_cap |-> market_cap,
         token_name |-> token_name, token_symbol |-> token_symbol,
         source |-> Str(source)])

-----------------------------------------------------------------------------
(* fetch_from_dexscreener *)

EmptyLiquidity == Obj([usd |-> Absent])
EmptyToken == Obj([name |-> Absent, symbol |-> Absent])

\* the sort key: float(x.get("liquidity", {}).get("usd", 0) or 0)
LiquidityKey(x) ==
    IF ~IsObj(x) THEN RAISE
    ELSE LET liq == Get(x.liquidity, EmptyLiquidity)
         IN  IF ~IsObj(liq) THEN RAISE
             ELSE PyFloat(Or(Get(liq.usd, Zero), Zero))

\* insert x into a list sorted by descending key, after the elements whose key
\* is not smaller (the sort is stable)
RECURSIVE InsertDesc(_, _)
InsertDesc(x, sorted) ==
    IF sorted = <<>> THEN <<x>>
    ELSE IF Lt(LiquidityKey(Head(sorted)), LiquidityKey(x)) THEN <<x>> \o sorted
    ELSE <<Head(sorted)>> \o InsertDesc(x, Tail(sorted))

RECURSIVE SortDesc(_)
SortDesc(items) ==
    IF items = <<>> THEN <<>>
    ELSE InsertDesc(items[Len(items)], SortDesc(SubSeq(items, 1, Len(items) - 1)))

\* computing the sort keys raises (every key is computed before the sort)
KeysRaise(items) == \E i \in 1..Len(items) : LiquidityKey(items[i]) = RAISE

\* sorted(pairs, key=..., reverse=True)
pairs_sorted(items) == SortDesc(items)

\* the body of the try block, lines 112-146, once the payload is decoded
dexscreener_quote(data) ==
    IF LenRaises(data.pairs) THEN RAISE
    ELSE IF PyLen(data.pairs) = 0 THEN None
    ELSE IF data.pairs.t # "list" THEN RAISE
    ELSE IF KeysRaise(data.pairs.items) THEN RAISE
    ELSE LET sorted == pairs_sorted(data.pairs.items)
         IN  LET pair == sorted[1]
                      price == Get(pair.priceUsd, Str("0"))
                      liquidity_data == Get(pair.liquidity, EmptyLiquidity)
                      liquidity == IF Truthy(liquidity_data)
                                   THEN Get(liquidity_data.usd, Zero) ELSE Zero
                      fdv == Get(pair.fdv, Zero)
                      market_cap == Get(pair.marketCap, fdv)
                      base_token == Get(pair.baseToken, EmptyToken)
                  IN  IF ~Truthy(price) \/ price = Str("0") THEN None
                      ELSE IF ~IsObj(base_token) THEN RAISE
                      ELSE RawQuote(price, liquidity, market_cap,
                                    Get(base_token.name, Str("Unknown")),
                                    Get(base_token.symbol, Str("???")),
                                    "DexScreener")

\* the try block of fetch_from_dexscreener: a quote, None, or RAISE
dexscreener_try(res) ==
    IF res.raised THEN RAISE
    ELSE IF res.status_code # 200 THEN None
    ELSE LET data == res.json
         IN  IF data = RAISE THEN RAISE
             ELSE IF ~Truthy(data) THEN None
             ELSE IF InRaises(data) THEN RAISE
             ELSE IF ~HasKey(data, IF IsObj(data) THEN data.pairs ELSE Absent) THEN None
             ELSE dexscreener_quote(data)

\* the except clause left out: the exception leaves the adapter
CatchNone_Missing(r) == r

\* except Exception: return None
CatchNone(r) == IF r = RAISE THEN None ELSE r

fetch_from_dexscreener(res) == CatchNone(dexscreener_try(res))

-----------------------------------------------------------------------------
(* fetch_from_birdeye *)

\* lines 176-196, once data["data"] has been read
birdeye_quote(token_data) ==
    IF ~IsObj(token_data) THEN RAISE
    ELSE LET price == Get(token_data.price, None)
             liquidity == Get(token_data.liquidity, Zero)
             market_cap == Get(token_data.mc, Zero)
             symbol == Get(token_data.symbol, Str("???"))
         IN  IF ~Truthy(price) \/ price = Zero THEN None
             ELSE RawQuote(Str(PyStr(price)), liquidity, market_cap,
                           symbol, symbol, "Birdeye")

birdeye_try(res) ==
    IF res.raised THEN RAISE
    ELSE IF res.status_code # 200 THEN None
    ELSE LET data == res.json
         IN  IF data = RAISE THEN RAISE
             ELSE IF ~Truthy(data) THEN None
             ELSE IF InRaises(data) THEN RAISE
             ELSE IF ~HasKey(data, IF IsObj(data) THEN data.data ELSE Absent) THEN None
             ELSE birdeye_quote(data.data)

fetch_from_birdeye(res) == CatchNone(birdeye_try(res))

-----------------------------------------------------------------------------
(* fetch_from_jupiter.  The payload's "data" mapping is keyed by token       *)
(* address; its field token is the entry under the requested address.      *)

\* lines 220-237
jupiter_quote(token_data) ==
    IF ~IsObj(token_data) THEN RAISE
    ELSE LET price == Get(token_data.price, None)
         IN  IF ~Truthy(price) \/ price = Zero THEN None
             ELSE RawQuote(Str(PyStr(price)), Zero, Zero,
                           Str("Unknown"), Str("???"), "Jupiter")

jupiter_try(res) ==
    IF res.raised THEN RAISE
    ELSE IF res.status_code # 200 THEN None
    ELSE LET data == res.json
         IN  IF data = RAISE THEN RAISE
             ELSE IF ~Truthy(data) THEN None
             ELSE IF InRaises(data) THEN RAISE
             ELSE IF ~HasKey(data, IF IsObj(data) THEN data.data ELSE Absent) THEN None
             ELSE IF InRaises(data.data) THEN RAISE
             ELSE IF ~HasKey(data.data, IF IsObj(data.data) THEN data.data.token
                                        ELSE Absent)
                  THEN None
             ELSE jupiter_quote(data.data.token)

fetch_from_jupiter(res) == CatchNone(jupiter_try(res))

-----------------------------------------------------------------------------
(* fetch_from_helius_das *)

EmptyContent == Obj([metadata |-> Absent])

\* lines 270-287
helius_quote(res_result) ==
    IF ~IsObj(res_result) THEN RAISE
    ELSE LET content == Get(res_result.content, EmptyContent)
         IN  IF ~IsObj(content) THEN RAISE
             ELSE LET metadata == Get(content.metadata, EmptyToken)
                  IN  IF ~IsObj(metadata) THEN RAISE
                      ELSE RawQuote(None, Zero, Zero,
                                    Get(metadata.name, Str("Unknown")),
                                    Get(metadata.symbol, Str("???")),
                                    "Helius")

helius_try(res) ==
    IF res.raised THEN RAISE
    ELSE IF res.status_code # 200 THEN None
    ELSE LET data == res.json
         IN  IF data = RAISE THEN RAISE
             ELSE IF ~Truthy(data) THEN None
             ELSE IF InRaises(data) THEN RAISE
             ELSE IF ~HasKey(data, IF IsObj(data) THEN data.result ELSE Absent) THEN None
             ELSE helius_quote(data.result)

fetch_from_helius_das(res) == CatchNone(helius_try(res))

-----------------------------------------------------------------------------
(* The responses a source may send.  Every failure class of the transport  *)
(* and every shape of the payload the adapters look at is present; the     *)
(* price takes each representation of absent, null, zero, a number and a   *)
(* non-numeric string.                                                     *)

MaxPairs == 2

Transport == {HttpRaised, HttpStatus(500), HttpOk(RAISE), HttpOk(None), HttpOk(Num(7, 0))}

StrPrices == {Str("0"), Str("0.0"), Str("1.5"), Str("2.5"), Str("abc")}
NumPrices == {Zero, Num(15, -1)}
Prices == {Absent, None} \cup NumPrices \cup StrPrices

Liquidities ==
    {Absent, None, Obj([usd |-> Absent]), Obj([usd |-> None]),
     Obj([usd |-> Num(100, 0)]), Obj([usd |-> Num(50000, 0)]), Obj([usd |-> Str("abc")])}

BaseTokens == {Absent, None, Obj([name |-> Str("Bonk"), symbol |-> Str("BONK")])}

Pair(priceUsd, liquidity, fdv, marketCap, baseToken) ==
    Obj([priceUsd |-> priceUsd, liquidity |-> liquidity, fdv |-> fdv,
         marketCap |-> marketCap, baseToken |-> baseToken])

\* one candidate in every shape: each price, and a priced one with every
\* shape of the other fields
RichPairs ==
    {Pair(p, Obj([usd |-> Num(100, 0)]), Num(1234, 0), Absent, Absent) : p \in Prices}
    \cup {Pair(Str("1.5"), l, f, m, b) :
            l \in Liquidities, f \in {Absent, Num(1234, 0)},
            m \in {Absent, Num(2500000, 0)}, b \in BaseTokens}

\* candidates that differ in price and liquidity, for lists of several
PlainPairs ==
    {Pair(p, l, Num(1234, 0), Absent, Absent) :
        p \in {Str("1.5"), Str("2.5"), Str("0.0"), None},
        l \in {Absent, None, Obj([usd |-> Num(100, 0)]), Obj([usd |-> Num(50000, 0)])}}

RECURSIVE SeqsOf(_, _)
SeqsOf(S, n) ==
    IF n = 0 THEN {<<>>}
    ELSE LET shorter == SeqsOf(S, n - 1)
         IN  shorter \cup {Append(q, x) : q \in {r \in shorter : Len(r) = n - 1}, x \in S}

PairLists ==
    {<<>>} \cup {<<x>> : x \in RichPairs \cup {None}} \cup SeqsOf(PlainPairs, MaxPairs)

DexResponses ==
    Transport
    \cup {HttpOk(Obj([pairs |-> p])) : p \in {Absent, None}}
    \cup {HttpOk(Obj([pairs |-> List(items)])) : items \in PairLists}

BirdeyeTokens ==
    {Obj([price |-> p, liquidity |-> Num(100, 0), mc |-> Absent, symbol |-> Absent]) :
        p \in Prices}
    \cup {Obj([price |-> Num(15, -1), liquidity |-> l, mc |-> m, symbol |-> s]) :
            l \in {Absent, Num(50000, 0)}, m \in {Absent, Num(2500000, 0)},
            s \in {Absent, Str("BONK")}}

BirdeyeResponses ==
    Transport
    \cup {HttpOk(Obj([data |-> d])) : d \in {Absent, None} \cup BirdeyeTokens}

JupiterResponses ==
    Transport
    \cup {HttpOk(Obj([data |-> d])) : d \in {Absent, None}}
    \cup {HttpOk(Obj([data |-> Obj([token |-> k])])) :
            k \in {Absent, None} \cup {Obj([price |-> p]) : p \in Prices}}

Metadatas == {Absent, None, Obj([name |-> Str("Bonk"), symbol |-> Str("BONK")]),
              Obj([name |-> Absent, symbol |-> Absent])}

HeliusResponses ==
    Transport
    \cup {HttpOk(Obj([result |-> r])) : r \in {Absent, None}}
    \cup {HttpOk(Obj([result |-> Obj([content |-> c])])) : c \in {Absent, None}}
    \cup {HttpOk(Obj([result |-> Obj([content |-> Obj([metadata |-> m])])])) :
            m \in Metadatas}

-----------------------------------------------------------------------------
(* What each adapter can return to the pipeline: its value on every        *)
(* response of its source.                                                 *)

DexReturns == {fetch_from_dexscreener(res) : res \in DexResponses}
BirdeyeReturns == {fetch_from_birdeye(res) : res \in BirdeyeResponses}
JupiterReturns == {fetch_from_jupiter(res) : res \in JupiterResponses}
HeliusReturns == {fetch_from_helius_das(res) : res \in HeliusResponses}

-----------------------------------------------------------------------------
(* format_token_result and the two failure results of fetch_token_info *)

\* float(result.get("price", 0)) if result.get("price") else 0
price_raw(r) == IF Truthy(r.price) THEN PyFloat(r.price) ELSE Zero

\* the formatted result flagged as an error
format_token_result_Failed(r) ==
    IF price_raw(r) = RAISE THEN RAISE
    ELSE Obj([price |-> Str(format_number(r.price)),
              price_raw |-> price_raw(r),
              liquidity |-> Str(format_number(r.liquidity)),
              market_cap |-> Str(format_number(r.market_cap)),
              token_name |-> r.token_name,
              token_symbol |-> r.token_symbol,
              source |-> r.source,
              error |-> True,
              error_msg |-> Absent])

\* a ResolvedQuote, or RAISE when float(price) raises
format_token_result(r) ==
    IF price_raw(r) = RAISE THEN RAISE
    ELSE Obj([price |-> Str(format_number(r.price)),
              price_raw |-> price_raw(r),
              liquidity |-> Str(format_number(r.liquidity)),
              market_cap |-> Str(format_number(r.market_cap)),
              token_name |-> r.token_name,
              token_symbol |-> r.token_symbol,
              source |-> r.source,
              error |-> False,
              error_msg |-> Absent])

NoPriceMsg ==
    "Token found but no price data available. It may not be listed on any DEX yet."
NotFoundMsg ==
    "Token not found. Please verify the contract address is correct and the token is listed on a Solana DEX."

\* the degraded result built from the placeholders instead of the registry's record
unavailable_result_Placeholders(r) ==
    Obj([price |-> Str("Price Unavailable"),
         price_raw |-> Absent,
         liquidity |-> Str("Data Unavailable"),
         market_cap |-> Str("Data Unavailable"),
         token_name |-> Str("Unknown"),
         token_symbol |-> Str("???"),
         source |-> r.source,
         error |-> True,
         error_msg |-> Str(NoPriceMsg)])

\* lines 326-335
unavailable_result(r) ==
    Obj([price |-> Str("Price Unavailable"),
         price_raw |-> Absent,
         liquidity |-> Str("Data Unavailable"),
         market_cap |-> Str("Data Unavailable"),
         token_name |-> r.token_name,
         token_symbol |-> r.token_symbol,
         source |-> r.source,
         error |-> True,
         error_msg |-> Str(NoPriceMsg)])

\* the total failure reported with the degraded result's sentinels
not_found_result_Unavailable ==
    Obj([price |-> Str("Price Unavailable"),
         price_raw |-> Absent,
         liquidity |-> Str("Data Unavailable"),
         market_cap |-> Str("Data Unavailable"),
         token_name |-> Str("Unknown"),
         token_symbol |-> Str("???"),
         source |-> Str("None"),
         error |-> True,
         error_msg |-> Str(NotFoundMsg)])

\* lines 339-348
not_found_result ==
    Obj([price |-> Str("Not Found"),
         price_raw |-> Absent,
         liquidity |-> Str("Not Found"),
         market_cap |-> Str("Not Found"),
         token_name |-> Str("Unknown"),
         token_symbol |-> Str("???"),
         source |-> Str("None"),
         error |-> True,
         error_msg |-> Str(NotFoundMsg)])

\* the price test inverted: a priced quote does not end the pipeline
HasPrice_Inverted(r) == Truthy(r) /\ ~Truthy(r.price)

\* if result and result.get("price")
HasPrice(r) == Truthy(r) /\ Truthy(r.price)

\* the registry's record taken whole, with the oracle's price put into it
enrich_WholeRecord(r, metadata) ==
    IF Truthy(metadata) THEN [metadata EXCEPT !.price = r.price] ELSE r

\* lines 317-319: name and symbol taken from the registry's record
enrich(r, metadata) ==
    IF Truthy(metadata)
    THEN [r EXCEPT !.token_name = metadata.token_name,
                   !.token_symbol = metadata.token_symbol]
    ELSE r

-----------------------------------------------------------------------------
(* The conversation: the users map and the four handlers.  The dispatcher  *)
(* runs one handler at a time; pc is "idle" between updates and names the  *)
(* adapter about to be called while handle_messages is inside              *)
(* fetch_token_info.  cur, result, calls and info belong to the handler    *)
(* that ran last (calls lists the adapters it invoked, in order) and are   *)
(* reset when the next update is dispatched; reply is what that handler    *)
(* sent last, None when it sent nothing.                                   *)

MaxEvents == 4

Users == {"u1", "u2"}
Texts == {" TOKENAAA ", "\tTOKEN AAA \n", "0.5"}
Balances == {Zero, Num(25, -1)}
KeyArgs == {<<>>, <<"5J8f", "H3kL">>}

DEFAULT_WALLET_ADDRESS == "c54iQVThndYzaKXK8NqCRWDiRdUoni8LBkpmRoU3aPT"
DEFAULT_PRIVATE_KEY == "YOUR_PRIVATE_KEY_HERE"

\* the dict a never-seen user gets (lines 366-370, 404-408, 526-530)
NewUser ==
    Obj([wallet |-> Str(DEFAULT_WALLET_ADDRESS), balance |-> Zero,
         private_key |-> Str(DEFAULT_PRIVATE_KEY),
         awaiting_contract |-> Absent, awaiting_withdraw_x_amount |-> Absent,
         withdraw_x_amount |-> Absent])

\* {} : the default of users.get(user_id, {})
EmptyUser ==
    Obj([wallet |-> Absent, balance |-> Absent, private_key |-> Absent,
         awaiting_contract |-> Absent, awaiting_withdraw_x_amount |-> Absent,
         withdraw_x_amount |-> Absent])

\* " ".join(args)
RECURSIVE Join(_)
Join(args) ==
    IF Len(args) = 0 THEN ""
    ELSE IF Len(args) = 1 THEN args[1]
    ELSE args[1] \o " " \o Join(Tail(args))

\* the dispatcher hands the next update to its handler once the handler of
\* the update before has returned
Dispatch(handler, user_id, data) ==
    /\ pc = "idle"
    /\ events < MaxEvents
    /\ events' = events + 1
    /\ update' = [handler |-> handler, user_id |-> user_id, data |-> data]
    /\ UNCHANGED probe

NoLookup ==
    /\ pc' = "idle"
    /\ cur' = None
    /\ result' = None
    /\ calls' = <<>>
    /\ info' = None

Message(u, view, body) == [to |-> u, view |-> view, body |-> body]

\* the entry assigned in place of setdefault: /start resets the user
start_Resets(user_id) ==
    /\ Dispatch("start", user_id, <<>>)
    /\ NoLookup
    /\ \E balance \in Balances :
         LET user == NewUser
             wallet_address == Get(user.wallet, Str(DEFAULT_WALLET_ADDRESS))
         IN  /\ users' = [users EXCEPT ![user_id] = [user EXCEPT !.balance = balance]]
             /\ reply' = Message(user_id, "welcome",
                                 [balance |-> Fixed(balance, 4),
                                  wallet |-> PyStr(wallet_address)])

\* /start
start(user_id) ==
    /\ Dispatch("start", user_id, <<>>)
    /\ NoLookup
    /\ \E balance \in Balances :
         LET user == Get(users[user_id], NewUser)
             wallet_address == Get(user.wallet, Str(DEFAULT_WALLET_ADDRESS))
         IN  /\ users' = [users EXCEPT ![user_id] = [user EXCEPT !.balance = balance]]
             /\ reply' = Message(user_id, "welcome",
                                 [balance |-> Fixed(balance, 4),
                                  wallet |-> PyStr(wallet_address)])

StaticButtons ==
    {"help", "limit_orders", "add_tp_sl", "withdraw_all", "export_seed",
     "reveal_private_key", "close_wallet", "buy_x"}

\* what a branch of button that changes no state sends
StaticReply(user_id, data, user) ==
    CASE data = "reveal_private_key" ->
           Message(user_id, data,
                   [private_key |-> PyStr(Get(user.private_key, Str(DEFAULT_PRIVATE_KEY)))])
      [] data \in {"close_wallet", "buy_x"} -> None
      [] OTHER -> Message(user_id, data, <<>>)

\* a button press: lines 397-507
button(user_id, data) ==
    /\ Dispatch("button", user_id, data)
    /\ NoLookup
    /\ LET user == IF ~Truthy(users[user_id]) THEN NewUser ELSE users[user_id]
       IN  \/ /\ data \in {"wallet", "refresh"}
              /\ \E balance \in Balances :
                   /\ users' = [users EXCEPT ![user_id] = [user EXCEPT !.balance = balance]]
                   /\ reply' = Message(user_id, data,
                                       [balance |-> Fixed(balance, 4),
                                        wallet |-> PyStr(Get(user.wallet,
                                                             Str(DEFAULT_WALLET_ADDRESS)))])
           \/ /\ data = "buy"
              /\ users' = [users EXCEPT ![user_id] = [user EXCEPT !.awaiting_contract = True]]
              /\ reply' = Message(user_id, "buy", <<>>)
           \/ /\ data = "withdraw_x"
              /\ users' = [users EXCEPT ![user_id] =
                              [user EXCEPT !.awaiting_withdraw_x_amount = True]]
              /\ reply' = Message(user_id, "withdraw_x", <<>>)
           \/ /\ data \in StaticButtons
              /\ users' = [users EXCEPT ![user_id] = user]
              /\ reply' = StaticReply(user_id, data, user)

Buttons == {"wallet", "refresh", "buy", "withdraw_x"} \cup StaticButtons

\* the test user_id not in users left out: /setkey makes the entry anew
set_private_key_Recreates(user_id, args) ==
    /\ Dispatch("set_private_key", user_id, args)
    /\ NoLookup
    /\ IF Len(args) = 0
       THEN /\ reply' = Message(user_id, "setkey_usage", <<>>)
            /\ UNCHANGED users
       ELSE LET new_key == Join(args)
                user == NewUser
            IN  /\ users' = [users EXCEPT ![user_id] =
                                [user EXCEPT !.private_key = Str(new_key)]]
                /\ reply' = Message(user_id, "setkey_ok", <<>>)

\* /setkey: lines 510-539
set_private_key(user_id, args) ==
    /\ Dispatch("set_private_key", user_id, args)
    /\ NoLookup
    /\ IF Len(args) = 0
       THEN /\ reply' = Message(user_id, "setkey_usage", <<>>)
            /\ UNCHANGED users
       ELSE LET new_key == Join(args)
                user == IF users[user_id] = Absent THEN NewUser ELSE users[user_id]
            IN  /\ users' = [users EXCEPT ![user_id] =
                                [user EXCEPT !.private_key = Str(new_key)]]
                /\ reply' = Message(user_id, "setkey_ok", <<>>)

\* the lookup entered with the awaiting_contract flag still set
handle_messages_FlagLeftSet(user_id, text) ==
    /\ Dispatch("handle_messages", user_id, text)
    /\ LET user == Get(users[user_id], EmptyUser)
       IN  IF Truthy(Get(user.awaiting_withdraw_x_amount, None))
           THEN /\ users' = [users EXCEPT ![user_id] =
                                [user EXCEPT !.withdraw_x_amount = Str(text),
                                             !.awaiting_withdraw_x_amount = False]]
                /\ reply' = Message(user_id, "destination", <<>>)
                /\ NoLookup
           ELSE IF Truthy(Get(user.awaiting_contract, None))
           THEN /\ users' = [users EXCEPT ![user_id] =
                                [user EXCEPT !.awaiting_contract = True]]
                /\ reply' = Message(user_id, "loading", <<>>)
                /\ pc' = "dexscreener"
                /\ cur' = [user_id |-> user_id, text |-> text,
                           contract_address |-> Strip(text)]
                /\ result' = None
                /\ calls' = <<>>
                /\ info' = None
           ELSE /\ UNCHANGED users
                /\ reply' = None
                /\ NoLookup

\* users.setdefault in place of users.get: a text creates the sender's entry
handle_messages_SetDefault(user_id, text) ==
    /\ Dispatch("handle_messages", user_id, text)
    /\ LET user == Get(users[user_id], EmptyUser)
       IN  IF Truthy(Get(user.awaiting_withdraw_x_amount, None))
           THEN /\ users' = [users EXCEPT ![user_id] =
                                [user EXCEPT !.withdraw_x_amount = Str(text),
                                             !.awaiting_withdraw_x_amount = False]]
                /\ reply' = Message(user_id, "destination", <<>>)
                /\ NoLookup
           ELSE IF Truthy(Get(user.awaiting_contract, None))
           THEN /\ users' = [users EXCEPT ![user_id] =
                                [user EXCEPT !.awaiting_contract = False]]
                /\ reply' = Message(user_id, "loading", <<>>)
                /\ pc' = "dexscreener"
                /\ cur' = [user_id |-> user_id, text |-> text,
                           contract_address |-> Strip(text)]
                /\ result' = None
                /\ calls' = <<>>
                /\ info' = None
           ELSE /\ users' = [users EXCEPT ![user_id] = Get(users[user_id], NewUser)]
                /\ reply' = None
                /\ NoLookup

\* the amount stored with the awaiting_withdraw_x_amount flag left set
handle_messages_KeepsAmountFlag(user_id, text) ==
    /\ Dispatch("handle_messages", user_id, text)
    /\ LET user == Get(users[user_id], EmptyUser)
       IN  IF Truthy(Get(user.awaiting_withdraw_x_amount, None))
           THEN /\ users' = [users EXCEPT ![user_id] =
                                [user EXCEPT !.withdraw_x_amount = Str(text)]]
                /\ reply' = Message(user_id, "destination", <<>>)
                /\ NoLookup
           ELSE IF Truthy(Get(user.awaiting_contract, None))
           THEN /\ users' = [users EXCEPT ![user_id] =
                                [user EXCEPT !.awaiting_contract = False]]
                /\ reply' = Message(user_id, "loading", <<>>)
                /\ pc' = "dexscreener"
                /\ cur' = [user_id |-> user_id, text |-> text,
                           contract_address |-> Strip(text)]
                /\ result' = None
                /\ calls' = <<>>
                /\ info' = None
           ELSE /\ UNCHANGED users
                /\ reply' = None
                /\ NoLookup

\* one awaiting_contract flag for all users: a lookup clears it for everyone
handle_messages_SharedFlag(user_id, text) ==
    /\ Dispatch("handle_messages", user_id, text)
    /\ LET user == Get(users[user_id], EmptyUser)
       IN  IF Truthy(Get(user.awaiting_withdraw_x_amount, None))
           THEN /\ users' = [users EXCEPT ![user_id] =
                                [user EXCEPT !.withdraw_x_amount = Str(text),
                                             !.awaiting_withdraw_x_amount = False]]
                /\ reply' = Message(user_id, "destination", <<>>)
                /\ NoLookup
           ELSE IF Truthy(Get(user.awaiting_contract, None))
           THEN /\ users' = [v \in Users |->
                                IF users[v] = Absent THEN users[v]
                                ELSE [users[v] EXCEPT !.awaiting_contract = False]]
                /\ reply' = Message(user_id, "loading", <<>>)
                /\ pc' = "dexscreener"
                /\ cur' = [user_id |-> user_id, text |-> text,
                           contract_address |-> Strip(text)]
                /\ result' = None
                /\ calls' = <<>>
                /\ info' = None
           ELSE /\ UNCHANGED users
                /\ reply' = None
                /\ NoLookup

\* if in place of elif: a text taken as the amount is looked up as well
handle_messages_BothBranches(user_id, text) ==
    /\ Dispatch("handle_messages", user_id, text)
    /\ LET user == Get(users[user_id], EmptyUser)
       IN  IF Truthy(Get(user.awaiting_withdraw_x_amount, None))
           THEN /\ users' = [users EXCEPT ![user_id] =
                                [user EXCEPT !.withdraw_x_amount = Str(text),
                                             !.awaiting_withdraw_x_amount = False,
                                             !.awaiting_contract =
                                                 IF Truthy(@) THEN False ELSE @]]
                /\ IF Truthy(Get(user.awaiting_contract, None))
                   THEN /\ reply' = Message(user_id, "loading", <<>>)
                        /\ pc' = "dexscreener"
                        /\ cur' = [user_id |-> user_id, text |-> text,
                                   contract_address |-> Strip(text)]
                        /\ result' = None
                        /\ calls' = <<>>
                        /\ info' = None
                   ELSE /\ reply' = Message(user_id, "destination", <<>>)
                        /\ NoLookup
           ELSE IF Truthy(Get(user.awaiting_contract, None))
           THEN /\ users' = [users EXCEPT ![user_id] =
                                [user EXCEPT !.awaiting_contract = False]]
                /\ reply' = Message(user_id, "loading", <<>>)
                /\ pc' = "dexscreener"
                /\ cur' = [user_id |-> user_id, text |-> text,
                           contract_address |-> Strip(text)]
                /\ result' = None
                /\ calls' = <<>>
                /\ info' = None
           ELSE /\ UNCHANGED users
                /\ reply' = None
                /\ NoLookup

\* a free-text message: lines 542-559, up to the call of fetch_token_info
handle_messages(user_id, text) ==
    /\ Dispatch("handle_messages", user_id, text)
    /\ LET user == Get(users[user_id], EmptyUser)
       IN  IF Truthy(Get(user.awaiting_withdraw_x_amount, None))
           THEN /\ users' = [users EXCEPT ![user_id] =
                                [user EXCEPT !.withdraw_x_amount = Str(text),
                                             !.awaiting_withdraw_x_amount = False]]
                /\ reply' = Message(user_id, "destination", <<>>)
                /\ NoLookup
           ELSE IF Truthy(Get(user.awaiting_contract, None))
           THEN /\ users' = [users EXCEPT ![user_id] =
                                [user EXCEPT !.awaiting_contract = False]]
                /\ reply' = Message(user_id, "loading", <<>>)
                /\ pc' = "dexscreener"
                /\ cur' = [user_id |-> user_id, text |-> text,
                           contract_address |-> Strip(text)]
                /\ result' = None
                /\ calls' = <<>>
                /\ info' = None
           ELSE /\ UNCHANGED users
                /\ reply' = None
                /\ NoLookup

-----------------------------------------------------------------------------
(* fetch_token_info, one step per adapter call, and the rest of            *)
(* handle_messages once it has returned                                    *)

\* contract_address = contract_address.strip(): what every adapter is given
fetch_address == Strip(cur.contract_address)

Call(adapter, ret) == [adapter |-> adapter, contract_address |-> fetch_address, ret |-> ret]

\* the error of the result not looked at: every result is shown as a token
Render_IgnoresError(i) ==
    IF i = RAISE THEN reply
    ELSE Message(cur.user_id, "token",
                 [token_name |-> PyStr(i.token_name),
                  token_symbol |-> PyStr(i.token_symbol),
                  price |-> PyStr(i.price),
                  contract |-> cur.contract_address])

\* lines 561-603: the failure view when info["error"], else the token view;
\* an exception out of fetch_token_info ends the handler where it is
Render(i) ==
    IF i = RAISE THEN reply
    ELSE IF Truthy(Get(i.error, None))
    THEN Message(cur.user_id, "lookup_failed",
                 [error_msg |-> PyStr(Get(i.error_msg, Str("Unknown error"))),
                  contract |-> cur.contract_address,
                  keyboard |-> <<"buy">>])
    ELSE Message(cur.user_id, "token",
                 [token_name |-> PyStr(i.token_name),
                  token_symbol |-> PyStr(i.token_symbol),
                  price |-> PyStr(i.price),
                  liquidity |-> PyStr(i.liquidity),
                  market_cap |-> PyStr(i.market_cap),
                  source |-> PyStr(Get(i.source, Str("Unknown"))),
                  contract |-> cur.contract_address,
                  keyboard |-> <<"buy_fixed_0.1", "buy_fixed_0.5", "buy_fixed_1.0",
                                 "buy_fixed_5.0", "buy_x", "close_wallet">>])

\* fetch_token_info returns i (or raises) and the handler runs to its end
Return(i) ==
    /\ info' = i
    /\ reply' = Render(i)
    /\ pc' = "idle"

Continue(next) ==
    /\ pc' = next
    /\ UNCHANGED <<info, reply>>

\* lines 303-305
CallDexScreener ==
    /\ pc = "dexscreener"
    /\ \E ret \in DexReturns :
         /\ calls' = Append(calls, Call("DexScreener", ret))
         /\ result' = ret
         /\ IF HasPrice(ret) THEN Return(format_token_result(ret))
            ELSE Continue("birdeye")
    /\ UNCHANGED <<users, cur, events, probe, update>>

\* the secondary falling through to the registry, the oracle skipped
CallBirdeye_SkipsOracle ==
    /\ pc = "birdeye"
    /\ \E ret \in BirdeyeReturns :
         /\ calls' = Append(calls, Call("Birdeye", ret))
         /\ result' = ret
         /\ IF HasPrice(ret) THEN Return(format_token_result(ret))
            ELSE Continue("helius_last")
    /\ UNCHANGED <<users, cur, events, probe, update>>

\* lines 308-310
CallBirdeye ==
    /\ pc = "birdeye"
    /\ \E ret \in BirdeyeReturns :
         /\ calls' = Append(calls, Call("Birdeye", ret))
         /\ result' = ret
         /\ IF HasPrice(ret) THEN Return(format_token_result(ret))
            ELSE Continue("jupiter")
    /\ UNCHANGED <<users, cur, events, probe, update>>

\* lines 313-315: a priced oracle quote goes on to the registry for enrichment
CallJupiter ==
    /\ pc = "jupiter"
    /\ \E ret \in JupiterReturns :
         /\ calls' = Append(calls, Call("Jupiter", ret))
         /\ result' = ret
         /\ IF HasPrice(ret) THEN Continue("helius_metadata")
            ELSE Continue("helius_last")
    /\ UNCHANGED <<users, cur, events, probe, update>>

\* the enrichment treated as the last resort: a registry failure fails the lookup
CallHeliusMetadata_FailsOnNone ==
    /\ pc = "helius_metadata"
    /\ \E metadata \in HeliusReturns :
         /\ calls' = Append(calls, Call("Helius", metadata))
         /\ result' = enrich(result, metadata)
         /\ IF Truthy(metadata) THEN Return(format_token_result(enrich(result, metadata)))
            ELSE Return(not_found_result)
    /\ UNCHANGED <<users, cur, events, probe, update>>

\* the registry asked again as the last resort when the enrichment got no record
CallHeliusMetadata_AsksAgain ==
    /\ pc = "helius_metadata"
    /\ \E metadata \in HeliusReturns :
         /\ calls' = Append(calls, Call("Helius", metadata))
         /\ result' = enrich(result, metadata)
         /\ IF Truthy(metadata) THEN Return(format_token_result(enrich(result, metadata)))
            ELSE Continue("helius_last")
    /\ UNCHANGED <<users, cur, events, probe, update>>

\* lines 316-320
CallHeliusMetadata ==
    /\ pc = "helius_metadata"
    /\ \E metadata \in HeliusReturns :
         /\ calls' = Append(calls, Call("Helius", metadata))
         /\ result' = enrich(result, metadata)
         /\ Return(format_token_result(enrich(result, metadata)))
    /\ UNCHANGED <<users, cur, events, probe, update>>

\* lines 323-348
CallHeliusLast ==
    /\ pc = "helius_last"
    /\ \E ret \in HeliusReturns :
         /\ calls' = Append(calls, Call("Helius", ret))
         /\ result' = ret
         /\ IF Truthy(ret) THEN Return(unavailable_result(ret))
            ELSE Return(not_found_result)
    /\ UNCHANGED <<users, cur, events, probe, update>>

-----------------------------------------------------------------------------
(* The adapters on their own: probe holds one response of a source and     *)
(* what the source's adapter returns on it.                                *)

Probe(adapter, res, ret) ==
    /\ probe' = [adapter |-> adapter, res |-> res, ret |-> ret]
    /\ UNCHANGED <<users, pc, cur, result, calls, info, reply, events, update>>

ProbeDexScreener == \E res \in DexResponses : Probe("DexScreener", res, fetch_from_dexscreener(res))
ProbeBirdeye == \E res \in BirdeyeResponses : Probe("Birdeye", res, fetch_from_birdeye(res))
ProbeJupiter == \E res \in JupiterResponses : Probe("Jupiter", res, fetch_from_jupiter(res))
ProbeHelius == \E res \in HeliusResponses : Probe("Helius", res, fetch_from_helius_das(res))

NextAdapters == ProbeDexScreener \/ ProbeBirdeye \/ ProbeJupiter \/ ProbeHelius

Init ==
    /\ users = [u \in Users |-> Absent]
    /\ pc = "idle"
    /\ cur = None
    /\ result = None
    /\ calls = <<>>
    /\ info = None
    /\ reply = None
    /\ events = 0
    /\ probe = None
    /\ update = None

Next ==
    \/ \E u \in Users : start(u)
    \/ \E u \in Users, data \in Buttons : button(u, data)
    \/ \E u \in Users, args \in KeyArgs : set_private_key(u, args)
    \/ \E u \in Users, text \in Texts : handle_messages(u, text)
    \/ CallDexScreener
    \/ CallBirdeye
    \/ CallJupiter
    \/ CallHeliusMetadata
    \/ CallHeliusLast

Spec == Init /\ [][Next]_vars

SpecAdapters == Init /\ [][NextAdapters]_vars

-----------------------------------------------------------------------------
(* format_number on its own: probe holds one argument and the string       *)
(* returned for it.                                                        *)

\* numbers of either sign from 1e-9 to the hundreds of millions, zero, and
\* values float() takes or refuses
FormatInputs ==
    {Num(m, e) : m \in {-1234567, -25, -3, -1, 0, 1, 3, 12, 25, 99, 1234, 999999},
                 e \in -9..3}
        \cup {Num(1234, 0), Num(2500000, 0)}
        \cup {None, Str("abc"), Str(""), Str("12"), Str(" 0.005 "), Str("-3")}

ProbeFormat == \E value \in FormatInputs : Probe("format_number", value, format_number(value))

NextFormat == ProbeFormat

SpecFormat == Init /\ [][NextFormat]_vars
-----------------------------------------------------------------------------
(* Properties *)

\* a RawQuote that carries a price: the price is there and not empty
PricedQuote(ret) == ret.t = "obj" /\ ret.price \notin {Absent, None, Str(""), Zero}

IsRawQuote(v) ==
    /\ v.t = "obj"
    /\ DOMAIN v = {"t", "price", "liquidity", "market_cap", "token_name",
                   "token_symbol", "source"}

\* the order of priority of the adapters
Priority == <<"DexScreener", "Birdeye", "Jupiter", "Helius">>

\* a lookup has been started by the handler that ran last
InLookup == cur # None

\* that lookup has ended: fetch_token_info returned or raised
LookupEnded == InLookup /\ pc = "idle"

\* fetch_token_info returned a result
Returned == LookupEnded /\ info # RAISE

TimesInvoked(adapter) == Cardinality({i \in DOMAIN calls : calls[i].adapter = adapter})

Sentinels(i) == {i.price, i.liquidity, i.market_cap}
UnavailableSentinels == {Str("Price Unavailable"), Str("Data Unavailable")}

\* C1: once the primary or the secondary adapter has returned a quote with a
\* price, no further adapter is invoked in that lookup: the call is the last
\* one of the lookup and the lookup has ended.
C1_ShortCircuit ==
    \A i \in DOMAIN calls :
        (calls[i].adapter \in {"DexScreener", "Birdeye"} /\ PricedQuote(calls[i].ret))
            => (i = Len(calls) /\ pc = "idle")

\* C1 witness: a lookup that ended on the primary adapter's priced quote
C1_Witness ==
    /\ Returned
    /\ Len(calls) = 1
    /\ calls[1].adapter = "DexScreener"
    /\ PricedQuote(calls[1].ret)
    /\ info.error = False

\* C2 as stated: the adapters are invoked in the order of priority, each one
\* only after every adapter before it was invoked and gave no priced quote.
C2_PriorityOrderStated ==
    /\ Len(calls) <= Len(Priority)
    /\ \A i \in DOMAIN calls :
         /\ calls[i].adapter = Priority[i]
         /\ \A j \in 1..(i - 1) : ~PricedQuote(calls[j].ret)

\* C2 amended: the adapters are invoked in the order of priority, each one only
\* after every adapter before it was invoked and gave no priced quote, except
\* that the registry is also invoked after the oracle gave a priced quote.
C2_PriorityOrder ==
    /\ Len(calls) <= Len(Priority)
    /\ \A i \in DOMAIN calls :
         /\ calls[i].adapter = Priority[i]
         /\ \A j \in 1..(i - 1) :
              \/ ~PricedQuote(calls[j].ret)
              \/ (calls[j].adapter = "Jupiter" /\ calls[i].adapter = "Helius")

\* C2 witness: all four adapters were invoked and the first three gave no price
C2_Witness ==
    /\ LookupEnded
    /\ Len(calls) = 4
    /\ \A j \in 1..3 : ~PricedQuote(calls[j].ret)

\* the five results of a lookup
PrimarySuccess(i) == i.error = False /\ i.source = Str("DexScreener")
SecondarySuccess(i) == i.error = False /\ i.source = Str("Birdeye")
OracleSuccess(i) == i.error = False /\ i.source = Str("Jupiter")
Degraded(i) == i.error = True /\ i.error_msg = Str(NoPriceMsg)
NotFound(i) == i.error = True /\ i.error_msg = Str(NotFoundMsg)

\* C3: every lookup that has ended has returned a result, which is one of
\* the five outcomes; no error leaves fetch_token_info.
C3_FiveOutcomes ==
    LookupEnded =>
        /\ info # RAISE
        /\ info.t = "obj"
        /\ Cardinality({k \in 1..5 :
               <<PrimarySuccess(info), SecondarySuccess(info), OracleSuccess(info),
                 Degraded(info), NotFound(info)>>[k]}) = 1

\* C4: a returned result has error set exactly when no adapter returned a
\* priced quote in that lookup, and when error is not set its price is
\* neither failure sentinel.
C4_FailedIffNoPrice ==
    Returned =>
        /\ (info.error = True) <=> (\A i \in DOMAIN calls : ~PricedQuote(calls[i].ret))
        /\ info.error \in {True, False}
        /\ info.error = False =>
             info.price \notin {Str("Price Unavailable"), Str("Not Found")}

\* C4 witness: a result returned with error unset after the primary adapter
\* gave no priced quote and the secondary gave one
C4_Witness ==
    /\ Returned
    /\ Len(calls) = 2
    /\ PricedQuote(calls[2].ret)
    /\ info.error = False

\* C5: when all four adapters return None, the result is the total failure:
\* error set, the three fields "Not Found", source "None", the not-found message,
\* and no field is an "unavailable" sentinel.
C5_TotalFailure ==
    (LookupEnded /\ Len(calls) = 4 /\ \A i \in 1..4 : calls[i].ret = None) =>
        /\ info # RAISE
        /\ info.error = True
        /\ Sentinels(info) = {Str("Not Found")}
        /\ info.source = Str("None")
        /\ info.error_msg = Str(NotFoundMsg)
        /\ Sentinels(info) \cap UnavailableSentinels = {}

\* C5 witness: a lookup in which all four adapters returned None has ended
C5_Witness ==
    /\ LookupEnded
    /\ Len(calls) = 4
    /\ \A i \in 1..4 : calls[i].ret = None
    /\ reply.view = "lookup_failed"

\* C6: when the first three adapters give no priced quote and the registry
\* returns a record, the result has error set, the "unavailable" sentinels,
\* the registry's name and symbol and the no-price message, which is not the
\* message of the total failure.
C6_PartialResolution ==
    (LookupEnded /\ Len(calls) = 4 /\ calls[4].ret # None
        /\ \A j \in 1..3 : ~PricedQuote(calls[j].ret)) =>
        /\ info # RAISE
        /\ info.error = True
        /\ info.price = Str("Price Unavailable")
        /\ info.liquidity = Str("Data Unavailable")
        /\ info.market_cap = Str("Data Unavailable")
        /\ Str("Not Found") \notin Sentinels(info)
        /\ info.token_name = calls[4].ret.token_name
        /\ info.token_symbol = calls[4].ret.token_symbol
        /\ info.error_msg =
             Str("Token found but no price data available. It may not be listed on any DEX yet.")
        /\ info.error_msg # Str(NotFoundMsg)

\* C6 witness: the registry alone answered, with the token's name
C6_Witness ==
    /\ LookupEnded
    /\ Len(calls) = 4
    /\ \A j \in 1..3 : calls[j].ret = None
    /\ calls[4].ret # None
    /\ calls[4].ret.token_name = Str("Bonk")
    /\ info.token_name = Str("Bonk")

\* the lookup went through the oracle: the first two adapters gave no priced
\* quote and the oracle gave one
OraclePath ==
    /\ Len(calls) >= 3
    /\ ~PricedQuote(calls[1].ret)
    /\ ~PricedQuote(calls[2].ret)
    /\ calls[3].adapter = "Jupiter"
    /\ PricedQuote(calls[3].ret)

\* C7: on the oracle path the registry is invoked exactly once before the
\* lookup ends, and a returned result has error unset whether the registry
\* returned a record or None.
C7_OracleEnrichment ==
    OraclePath =>
        /\ TimesInvoked("Helius") <= 1
        /\ pc \in {"helius_metadata", "idle"}
        /\ pc = "helius_metadata" => TimesInvoked("Helius") = 0
        /\ pc = "idle" => TimesInvoked("Helius") = 1
        /\ Returned => info.error = False

\* C7 witness: the registry failed and the oracle's quote was still returned
C7_Witness ==
    /\ OraclePath
    /\ Returned
    /\ Len(calls) = 4
    /\ calls[4].adapter = "Helius"
    /\ calls[4].ret = None
    /\ info.error = False

\* C8: a price-supplying adapter never returns a quote whose price is zero.
C8_NoZeroPriceQuote ==
    (probe # None /\ probe.adapter \in {"DexScreener", "Birdeye", "Jupiter"}
        /\ probe.ret # None) =>
        PyFloat(probe.ret.price) # Zero

\* C9: on every response each adapter returns a RawQuote or None; no exception
\* leaves it.
C9_AdaptersNeverRaise ==
    probe # None =>
        /\ probe.ret # RAISE
        /\ probe.ret = None \/ IsRawQuote(probe.ret)

\* what the try block of the probed adapter evaluates to
ProbeTry ==
    CASE probe.adapter = "DexScreener" -> dexscreener_try(probe.res)
      [] probe.adapter = "Birdeye" -> birdeye_try(probe.res)
      [] probe.adapter = "Jupiter" -> jupiter_try(probe.res)
      [] probe.adapter = "Helius" -> helius_try(probe.res)

\* C9 witness: a payload made the try block raise (here a wrong-typed field,
\* the transport did not fail) and the adapter returned None
C9_Witness ==
    /\ probe # None
    /\ ~probe.res.raised
    /\ probe.res.json # RAISE
    /\ ProbeTry = RAISE
    /\ probe.ret = None

\* C10: no user has both awaiting flags set.
C10_AtMostOneAwaiting ==
    \A u \in Users :
        users[u] # Absent =>
            ~(Truthy(users[u].awaiting_contract)
                /\ Truthy(users[u].awaiting_withdraw_x_amount))

\* the flags of u's entry in the user map us; a user with no entry has none
AwaitingContract(us, u) == us[u] # Absent /\ us[u].awaiting_contract = True
AwaitingWithdraw(us, u) == us[u] # Absent /\ us[u].awaiting_withdraw_x_amount = True
Idle(us, u) == ~AwaitingContract(us, u) /\ ~AwaitingWithdraw(us, u)

\* this step hands a free text of u to handle_messages
TextFrom(u) ==
    /\ events' = events + 1
    /\ update'.handler = "handle_messages"
    /\ update'.user_id = u

\* C11: the awaiting_contract flag of a user is cleared before the pipeline
\* is entered for that user's text, so of two texts of one user sent while
\* the flag is set at most one enters the pipeline: a lookup is only entered
\* by a text that found the flag set, the flag is clear for as long as the
\* lookup runs, and a text that finds it clear enters no lookup.
C11_FlagClearedBeforePipeline ==
    [][/\ pc' # "idle" => ~AwaitingContract(users', cur'.user_id)
       /\ (pc = "idle" /\ pc' # "idle") =>
              /\ TextFrom(cur'.user_id)
              /\ AwaitingContract(users, cur'.user_id)
       /\ \A u \in Users :
              (TextFrom(u) /\ ~AwaitingContract(users, u)) =>
                  (pc' = "idle" /\ cur' = None /\ calls' = <<>>)]_vars

\* C11 witness: three updates in all, the press of "buy", the text that the
\* lookup was made for and a second text of the same user, which found the
\* flag cleared and entered nothing
C11_Witness ==
    /\ events = 3
    /\ update.handler = "handle_messages"
    /\ pc = "idle"
    /\ cur = None
    /\ reply = None
    /\ users[update.user_id] # Absent
    /\ users[update.user_id].awaiting_contract = False

\* C12: a free text of a user with neither flag set, a user with no entry
\* in the map included, enters no lookup and calls no adapter, is answered
\* with nothing and leaves the user map as it was.
C12_IdleTextIgnored ==
    [][\A u \in Users :
           (TextFrom(u) /\ Idle(users, u)) =>
               /\ pc' = "idle"
               /\ cur' = None
               /\ calls' = <<>>
               /\ reply' = None
               /\ users' = users]_vars

\* C12 witness: the text of a never-seen user has been handled: nothing was
\* sent and the user still has no entry
C12_Witness ==
    /\ update # None
    /\ update.handler = "handle_messages"
    /\ users[update.user_id] = Absent
    /\ pc = "idle"
    /\ calls = <<>>
    /\ reply = None

\* s is text without the blanks at its two ends
IsBlank(c) == c \in {" ", "\t", "\n", "\r", "\f"}
IsTrimOf(s, text) ==
    \E a \in 1..Len(text) + 1, b \in 0..Len(text) :
        /\ s = SubSeq(text, a, b)
        /\ \A i \in (1..a - 1) \cup (b + 1..Len(text)) : IsBlank(SubSeq(text, i, i))
        /\ s # "" => /\ ~IsBlank(SubSeq(s, 1, 1))
                     /\ ~IsBlank(SubSeq(s, Len(s), Len(s)))

\* the lookup made for the text in update: what C13 says of it
C13_Lookup ==
    InLookup =>
        /\ update.handler = "handle_messages"
        /\ update.user_id = cur.user_id
        /\ Idle(users, cur.user_id)
        /\ \A i \in DOMAIN calls : IsTrimOf(calls[i].contract_address, update.data)
        /\ LookupEnded =>
               /\ calls[1].adapter = "DexScreener"
               /\ TimesInvoked("DexScreener") = 1
        /\ Returned =>
               /\ reply.to = cur.user_id
               /\ info.error = True => reply.view = "lookup_failed"
               /\ info.error # True => reply.view = "token"

\* C13: a free text of a user whose awaiting_contract flag is set (and whose
\* other flag is not) enters the pipeline; both flags of the user are unset
\* from then on, the pipeline is run once, with the text without its outer
\* blanks, and the result it returns is shown in the failure view when its
\* error is set and in the token view otherwise.
C13_AwaitingContractText ==
    [][/\ \A u \in Users :
              (TextFrom(u) /\ AwaitingContract(users, u) /\ ~AwaitingWithdraw(users, u)) =>
                  /\ pc' = "dexscreener"
                  /\ cur'.user_id = u
                  /\ calls' = <<>>
                  /\ Idle(users', u)
       /\ C13_Lookup']_vars

\* C13 witness: a lookup has returned a result with error set and the
\* failure view went to the user; both flags of the user are unset
C13_Witness ==
    /\ Returned
    /\ info.error = True
    /\ reply.view = "lookup_failed"
    /\ users[cur.user_id].awaiting_contract = False
    /\ ~AwaitingWithdraw(users, cur.user_id)

\* C14: a free text of a user whose awaiting_withdraw_x_amount flag is set
\* (and whose other flag is not) is stored as the withdraw amount, both
\* flags of the user are unset afterwards, the destination prompt is sent
\* and no lookup is entered; the next text of that user, with no action in
\* between, is ignored.
C14_AwaitingWithdrawText ==
    [][\A u \in Users :
           /\ (TextFrom(u) /\ AwaitingWithdraw(users, u) /\ ~AwaitingContract(users, u)) =>
                  /\ users'[u].withdraw_x_amount = Str(update'.data)
                  /\ Idle(users', u)
                  /\ reply' = Message(u, "destination", <<>>)
                  /\ pc' = "idle"
                  /\ cur' = None
                  /\ calls' = <<>>
                  /\ \A v \in Users \ {u} : users'[v] = users[v]
           /\ (/\ TextFrom(u)
               /\ reply = Message(u, "destination", <<>>)
               /\ ~AwaitingContract(users, u)) =>
                  /\ reply' = None
                  /\ pc' = "idle"
                  /\ users' = users]_vars

\* C14 witness: the text of a user who was awaiting the amount (and nothing
\* else) has been handled
C14_Witness ==
    /\ update # None
    /\ update.handler = "handle_messages"
    /\ reply = Message(update.user_id, "destination", <<>>)
    /\ users[update.user_id].withdraw_x_amount = Str(update.data)
    /\ users[update.user_id].awaiting_contract = Absent
    /\ users[update.user_id].awaiting_withdraw_x_amount = False
    /\ pc = "idle"
    /\ calls = <<>>

\* the adapter calls a lookup has made when it stands before the call pc names
CallsBefore ==
    CASE pc = "dexscreener" -> {<<>>}
      [] pc = "birdeye" -> {<<"DexScreener">>}
      [] pc = "jupiter" -> {<<"DexScreener", "Birdeye">>}
      [] pc \in {"helius_metadata", "helius_last"} -> {<<"DexScreener", "Birdeye", "Jupiter">>}
      [] pc = "idle" ->
           {<<"DexScreener">>, <<"DexScreener", "Birdeye">>,
            <<"DexScreener", "Birdeye", "Jupiter", "Helius">>}

\* C15: in one lookup every adapter is called at most once, the registry
\* either for the enrichment or as the last resort and never for both, and
\* a call is made only when the calls before it have returned: the calls
\* made so far are the ones that precede the place the lookup stands at.
C15_EachAdapterOnce ==
    InLookup =>
        /\ \A adapter \in {"DexScreener", "Birdeye", "Jupiter", "Helius"} :
               TimesInvoked(adapter) <= 1
        /\ [i \in DOMAIN calls |-> calls[i].adapter] \in CallsBefore

\* C15 witness: a lookup that went through all four adapters has ended, the
\* registry called for the enrichment, and each was called once
C15_Witness ==
    /\ LookupEnded
    /\ OraclePath
    /\ \A adapter \in {"DexScreener", "Birdeye", "Jupiter", "Helius"} :
           TimesInvoked(adapter) = 1

\* the USD liquidity a candidate reports: zero when its liquidity, or the
\* usd of its liquidity, is absent or null
ReportedUsd(x) ==
    IF x.liquidity \in {Absent, None} THEN Zero
    ELSE IF x.liquidity.usd \in {Absent, None} THEN Zero
    ELSE x.liquidity.usd

\* a candidate of the source: an object whose liquidity, where it has one,
\* is an object with a number for usd, and whose base token is an object
Candidate(x) ==
    /\ x.t = "obj"
    /\ \/ x.liquidity \in {Absent, None}
       \/ x.liquidity.t = "obj" /\ x.liquidity.usd.t \in {"absent", "null", "num"}
    /\ x.baseToken.t \in {"absent", "obj"}

\* the candidates no other candidate reports more liquidity than
Highest(items) ==
    {i \in 1..Len(items) :
        \A j \in 1..Len(items) : ~Lt(ReportedUsd(items[i]), ReportedUsd(items[j]))}

\* what the adapter returned is taken from candidate x: its fields when x
\* has a price, and nothing when it has none
TakenFrom(ret, x) ==
    IF ret = None THEN x.priceUsd \in {Absent, None, Str(""), Str("0"), Zero}
    ELSE /\ ret.price = x.priceUsd
         /\ ret.liquidity \in {ReportedUsd(x), None}
         /\ ret.market_cap = (IF x.marketCap # Absent THEN x.marketCap
                              ELSE IF x.fdv # Absent THEN x.fdv ELSE Zero)
         /\ ret.token_name = (IF x.baseToken = Absent \/ x.baseToken.name = Absent
                              THEN Str("Unknown") ELSE x.baseToken.name)
         /\ ret.token_symbol = (IF x.baseToken = Absent \/ x.baseToken.symbol = Absent
                                THEN Str("???") ELSE x.baseToken.symbol)

\* the primary adapter was given a non-empty list of candidates
CandidatesGiven ==
    /\ probe # None
    /\ probe.adapter = "DexScreener"
    /\ ~probe.res.raised
    /\ probe.res.status_code = 200
    /\ probe.res.json # RAISE
    /\ probe.res.json.t = "obj"
    /\ probe.res.json.pairs.t = "list"
    /\ Len(probe.res.json.pairs.items) > 0
    /\ \A i \in 1..Len(probe.res.json.pairs.items) :
           Candidate(probe.res.json.pairs.items[i])

\* the candidates of the example: liquidity 100 and 50,000
Liquidity100 == Pair(Str("1.5"), Obj([usd |-> Num(100, 0)]), Num(1234, 0), Absent, Absent)
Liquidity50000 == Pair(Str("2.5"), Obj([usd |-> Num(50000, 0)]), Num(1234, 0), Absent, Absent)

\* C16: given a non-empty list of candidates the primary adapter returns the
\* price, liquidity, market cap, name and symbol of a candidate no other
\* candidate reports more USD liquidity than, a candidate whose liquidity is
\* absent or null counting as zero; of the candidates with liquidity 100 and
\* 50,000 it returns the second, which the pipeline formats with error unset.
C16_HighestLiquidity ==
    CandidatesGiven =>
        /\ \E i \in Highest(probe.res.json.pairs.items) :
               TakenFrom(probe.ret, probe.res.json.pairs.items[i])
        /\ probe.res.json.pairs.items = <<Liquidity100, Liquidity50000>> =>
               /\ probe.ret # None
               /\ probe.ret.price = Str("2.5")
               /\ probe.ret.liquidity = Num(50000, 0)
               /\ format_token_result(probe.ret).error = False
               /\ format_token_result(probe.ret).price = Str("$2.5000")

\* C17: the identifier is the text without its outer blanks before any
\* adapter is called: every adapter called in a lookup is given that same
\* identifier, the second strip (of fetch_token_info, on the identifier the
\* handler has stripped already) changes nothing, and the view shown for the
\* result carries the identifier as it is.
C17_TrimmedIdentifier ==
    InLookup =>
        /\ IsTrimOf(cur.contract_address, update.data)
        /\ IsTrimOf(cur.contract_address, cur.contract_address)
        /\ \A i \in DOMAIN calls : calls[i].contract_address = cur.contract_address
        /\ Returned => reply.body.contract = cur.contract_address

\* C17 witness: a text with blanks at both ends and one inside was looked up
\* by all four adapters and the view carries it without the outer blanks
C17_Witness ==
    /\ Returned
    /\ update.data = "\tTOKEN AAA \n"
    /\ Len(calls) = 4
    /\ \A i \in DOMAIN calls : calls[i].contract_address = "TOKEN AAA"
    /\ reply.body.contract = "TOKEN AAA"

\* out is "$", a decimal numeral with exactly n fractional digits, and suffix
HasForm(out, n, suffix) ==
    \E k \in 3..Len(out) :
        /\ SubSeq(out, 1, 1) = "$"
        /\ SubSeq(out, k, k) = "."
        /\ Len(out) = k + n + Len(suffix)
        /\ SubSeq(out, k + n + 1, Len(out)) = suffix
        /\ \A i \in 2..k - 1 :
               SubSeq(out, i, i) \in Digits \/ (i = 2 /\ SubSeq(out, i, i) = "-")
        /\ \A i \in k + 1..k + n : SubSeq(out, i, i) \in Digits

\* out is "$0." and at most n fractional digits, the last of them not 0
IsStripped(out, n) ==
    /\ Len(out) \in 4..3 + n
    /\ SubSeq(out, 1, 3) = "$0."
    /\ \A i \in 4..Len(out) : SubSeq(out, i, i) \in Digits
    /\ SubSeq(out, Len(out), Len(out)) # "0"

\* the form the stated rules give the number x
StatedForm(x, out) ==
    IF x = Zero THEN out = "$0"
    ELSE IF Ge(x, Num(1000000, 0)) THEN HasForm(out, 2, "M")
    ELSE IF Ge(x, Num(1000, 0)) THEN HasForm(out, 2, "K")
    ELSE IF Lt(Zero, x) /\ Lt(x, Num(1, -6)) THEN IsStripped(out, 10)
    ELSE IF Lt(Zero, x) /\ Lt(x, Num(1, -2)) THEN IsStripped(out, 8)
    ELSE HasForm(out, 4, "")

\* C18: format_number returns "$0" for 0, two fractional digits and "M" from
\* a million up, two fractional digits and "K" from a thousand up, the
\* stripped form of at most 10 or 8 digits only for 0 < value < 0.01, four
\* fractional digits and no suffix for every other number, the negative ones
\* included, and "N/A" for what float() refuses; 1234 gives "$1.23K" and
\* 2500000 gives "$2.50M".
C18_FormatBranches ==
    (probe # None /\ probe.adapter = "format_number") =>
        /\ PyFloat(probe.res) = RAISE => probe.ret = "N/A"
        /\ PyFloat(probe.res) # RAISE => StatedForm(PyFloat(probe.res), probe.ret)
        /\ probe.res = Num(1234, 0) => probe.ret = "$1.23K"
        /\ probe.res = Num(2500000, 0) => probe.ret = "$2.50M"

\* C19: whatever the order in which the updates of two users are handled,
\* a step changes the entry of a user only when it hands an update of that
\* user to its handler; a lookup changes no entry, is made for the user
\* whose text started it, and its view goes to that user.
C19_UserIsolation ==
    [][/\ \A u \in Users :
              users'[u] # users[u] => (events' = events + 1 /\ update'.user_id = u)
       /\ pc # "idle" => (users' = users /\ update' = update /\ cur' = cur)
       /\ InLookup' => (update'.user_id = cur'.user_id /\ reply'.to = cur'.user_id)]_vars

\* C19 witness: u1 pressed "buy", then u2 pressed "buy" and sent a text; the
\* lookup for u2 has returned and u1 is still awaiting the identifier
C19_Witness ==
    /\ Returned
    /\ cur.user_id = "u2"
    /\ reply.to = "u2"
    /\ AwaitingContract(users, "u1")
    /\ users["u2"].awaiting_contract = False

\* C20: a result returned on the oracle path has the oracle's price, "$0"
\* for liquidity and market cap and "Jupiter" for its source whatever the
\* registry returned; its name and symbol are the registry's when the
\* registry returned a record and "Unknown" and "???" when it returned None.
C20_EnrichmentFrame ==
    (OraclePath /\ Returned) =>
        /\ info.error = False
        /\ result.price = calls[3].ret.price
        /\ info.price_raw = PyFloat(calls[3].ret.price)
        /\ result.liquidity = Zero
        /\ result.market_cap = Zero
        /\ info.liquidity = Str("$0")
        /\ info.market_cap = Str("$0")
        /\ info.source = Str("Jupiter")
        /\ calls[4].ret = None =>
               /\ info.token_name = Str("Unknown")
               /\ info.token_symbol = Str("???")
        /\ calls[4].ret # None =>
               /\ info.token_name = calls[4].ret.token_name
               /\ info.token_symbol = calls[4].ret.token_symbol

\* C20 witness: the registry returned a record with a name of its own and
\* the result carries that name next to the oracle's price and source
C20_Witness ==
    /\ OraclePath
    /\ Returned
    /\ calls[4].ret # None
    /\ calls[4].ret.token_name \notin {Str("Unknown"), Absent, None}
    /\ info.token_name = calls[4].ret.token_name
    /\ info.source = Str("Jupiter")
    /\ info.liquidity = Str("$0")

\* this step hands to its handler an update of u that is /start, /setkey or
\* the press of a button other than "buy" and "withdraw_x"
OtherEventOf(u) ==
    /\ events' = events + 1
    /\ update'.user_id = u
    /\ \/ update'.handler \in {"start", "set_private_key"}
       \/ update'.handler = "button" /\ update'.data \notin {"buy", "withdraw_x"}

\* C21: an awaiting flag that is set is cleared only by a step that hands a
\* free text of that user to handle_messages; /start, /setkey and every
\* button other than "buy" and "withdraw_x" leave both flags of a user who
\* has an entry as they were.
C21_OnlyTextClearsFlags ==
    [][\A u \in Users :
           /\ (users[u] # Absent /\ OtherEventOf(u)) =>
                  /\ users'[u].awaiting_contract = users[u].awaiting_contract
                  /\ users'[u].awaiting_withdraw_x_amount =
                         users[u].awaiting_withdraw_x_amount
           /\ (AwaitingContract(users, u) /\ ~AwaitingContract(users', u)) => TextFrom(u)
           /\ (AwaitingWithdraw(users, u) /\ ~AwaitingWithdraw(users', u)) => TextFrom(u)]_vars

\* C21 witness: /start of a user has been handled and the flag the user had
\* raised before it is still set
C21_Witness ==
    /\ update # None
    /\ update.handler = "start"
    /\ pc = "idle"
    /\ AwaitingContract(users, update.user_id)

\* the flag of u has been cleared by this step
ContractCleared(u) == AwaitingContract(users, u) /\ ~AwaitingContract(users', u)
WithdrawCleared(u) == AwaitingWithdraw(users, u) /\ ~AwaitingWithdraw(users', u)

\* C22: a free text takes at most one branch of handle_messages: it clears
\* at most one flag of its sender and enters the pipeline at most once, and
\* never both stores an amount and enters the pipeline; when the sender's
\* awaiting_withdraw_x_amount flag is set the text is stored as the amount
\* and no lookup is entered, the awaiting_contract flag left as it was.
C22_OneBranchPerText ==
    [][/\ \A u \in Users :
              TextFrom(u) =>
                  /\ ~(ContractCleared(u) /\ WithdrawCleared(u))
                  /\ WithdrawCleared(u) => pc' = "idle"
                  /\ pc' # "idle" => (ContractCleared(u) /\ ~AwaitingWithdraw(users, u))
                  /\ AwaitingWithdraw(users, u) =>
                         /\ WithdrawCleared(u)
                         /\ users'[u].withdraw_x_amount = Str(update'.data)
                         /\ users'[u].awaiting_contract = users[u].awaiting_contract
                         /\ pc' = "idle"
                         /\ cur' = None
                         /\ calls' = <<>>
       /\ InLookup' => TimesInvoked("DexScreener")' <= 1]_vars

\* C22 witness: a text of a user with both flags set has been handled: it
\* was stored as the amount, no lookup was entered for it and the
\* awaiting_contract flag is still set
C22_Witness ==
    /\ update # None
    /\ update.handler = "handle_messages"
    /\ pc = "idle"
    /\ cur = None
    /\ calls = <<>>
    /\ reply = Message(update.user_id, "destination", <<>>)
    /\ users[update.user_id].withdraw_x_amount = Str(update.data)
    /\ users[update.user_id].awaiting_withdraw_x_amount = False
    /\ AwaitingContract(users, update.user_id)

\* C23: the entry of a user, once made, is never removed nor made anew,
\* in whatever order the updates of the user are handled: after every step
\* the user still has the entry, a flag that was set is still set unless
\* the step handled a text of the user, the private key is the one recorded
\* unless the step handled a /setkey of the user, the stored amount is the
\* one recorded unless the step handled a text, and the wallet never changes.
C23_EntryKept ==
    [][\A u \in Users :
           users[u] # Absent =>
               /\ users'[u] # Absent
               /\ ~TextFrom(u) =>
                      /\ AwaitingContract(users, u) => AwaitingContract(users', u)
                      /\ AwaitingWithdraw(users, u) => AwaitingWithdraw(users', u)
                      /\ users'[u].withdraw_x_amount = users[u].withdraw_x_amount
               /\ users'[u].wallet = users[u].wallet
               /\ users'[u].private_key # users[u].private_key =>
                      /\ events' = events + 1
                      /\ update'.handler = "set_private_key"
                      /\ update'.user_id = u]_vars

\* C23 witness: a never-seen user pressed "buy", which made the entry, and
\* then sent /setkey with a key: the flag is still set and the key recorded
C23_Witness ==
    /\ events = 2
    /\ update.handler = "set_private_key"
    /\ Len(update.data) > 0
    /\ users[update.user_id] # Absent
    /\ users[update.user_id].private_key = Str(Join(update.data))
    /\ AwaitingContract(users, update.user_id)

====
